---- MODULE Spec2Model ----
(***************************************************************************)
(* A model of package linuxkernel's kernel configuration code (config.go): *)
(* ParseConfig / parseConfigLine, Config.WriteTo, Config.Equal,            *)
(* Config.ApplyDiff and DiffConfig.                                        *)
(*                                                                         *)
(* Go strings are modelled as sequences of one-character strings, so that  *)
(* prefix tests, trimming, splitting and formatting are computed the way   *)
(* the code computes them.  A Go map is a record [nil, kv]: a nil map and  *)
(* an empty map are different values that read alike.  The order in which  *)
(* a map is ranged over is an input of every operation that ranges.        *)
(***************************************************************************)
EXTENDS Integers, Sequences, FiniteSets, TLC

(***************************************************************************)
(* Bounds of the model.                                                    *)
(***************************************************************************)
\* the largest number of entries (InOld + Changes + InNew) of a diff handed to ApplyDiff
MaxDiffEntries == 3
\* the largest number of text fragments an input of ParseConfig is built from
MaxFrags == 5
\* the latest Write call at which the writer handed to WriteTo may fail
MaxFailAt == 2
\* the largest byte count a failing Write call reports
MaxShort == 1

(***************************************************************************)
(* Strings.                                                                *)
(***************************************************************************)
\* The characters of the model, in ascending byte order.
Alphabet ==
    << "\t", "\n", "\f", "\r", " ", "#", "=", "A", "B", "C", "F", "G", "I",
       "N", "O", "X", "_", "e", "i", "n", "o", "s", "t", "y" >>

Ord(c) == CHOOSE i \in 1..Len(Alphabet) : Alphabet[i] = c

\* Go's s < t on strings: bytewise lexicographic, a proper prefix is smaller.
RECURSIVE StrLess(_, _)
StrLess(s, t) ==
    IF t = <<>> THEN FALSE
    ELSE IF s = <<>> THEN TRUE
    ELSE IF Head(s) = Head(t) THEN StrLess(Tail(s), Tail(t))
    ELSE Ord(Head(s)) < Ord(Head(t))

\* unicode.IsSpace, on the characters of the model.
IsSpace(c) == c \in {"\t", "\n", "\f", "\r", " "}

HasPrefix(s, p) == Len(s) >= Len(p) /\ SubSeq(s, 1, Len(p)) = p

HasSuffix(s, p) == Len(s) >= Len(p) /\ SubSeq(s, Len(s) - Len(p) + 1, Len(s)) = p

TrimPrefix(s, p) == IF HasPrefix(s, p) THEN SubSeq(s, Len(p) + 1, Len(s)) ELSE s

TrimSuffix(s, p) == IF HasSuffix(s, p) THEN SubSeq(s, 1, Len(s) - Len(p)) ELSE s

RECURSIVE TrimLeft(_)
TrimLeft(s) == IF s # <<>> /\ IsSpace(Head(s)) THEN TrimLeft(Tail(s)) ELSE s

RECURSIVE TrimRight(_)
TrimRight(s) ==
    IF s # <<>> /\ IsSpace(s[Len(s)]) THEN TrimRight(SubSeq(s, 1, Len(s) - 1)) ELSE s

TrimSpace(s) == TrimRight(TrimLeft(s))

\* The index of the first sep in s at or after position i, or 0.
RECURSIVE IndexFrom(_, _, _)
IndexFrom(s, sep, i) ==
    IF i > Len(s) THEN 0
    ELSE IF s[i] = sep THEN i
    ELSE IndexFrom(s, sep, i + 1)

\* strings.Split(s, sep) for a one-character sep: every piece between separators.
RECURSIVE Split(_, _)
Split(s, sep) ==
    LET i == IndexFrom(s, sep, 1)
    IN  IF i = 0 THEN << s >>
        ELSE << SubSeq(s, 1, i - 1) >> \o Split(SubSeq(s, i + 1, Len(s)), sep)

\* The literals of the code.
StrCONFIG == << "C", "O", "N", "F", "I", "G", "_" >>
StrHashCONFIG == << "#", " " >> \o StrCONFIG
StrIsNotSet == << " ", "i", "s", " ", "n", "o", "t", " ", "s", "e", "t" >>
StrN == << "n" >>

(***************************************************************************)
(* Config: map[string]string.                                              *)
(***************************************************************************)
EmptyMap == [k \in {} |-> <<>>]
NilConfig == [nil |-> TRUE, kv |-> EmptyMap]
MakeConfig(f) == [nil |-> FALSE, kv |-> f]

\* The keys a range over cfg visits; a nil map has none.
Keys(cfg) == IF cfg.nil THEN {} ELSE DOMAIN cfg.kv

\* _, ok := cfg[opt]
Has(cfg, opt) == opt \in Keys(cfg)

\* cfg[opt] = val
MapSet(cfg, opt, val) ==
    MakeConfig([k \in Keys(cfg) \cup {opt} |-> IF k = opt THEN val ELSE cfg.kv[k]])

\* delete(cfg, opt)
MapDelete(cfg, opt) ==
    IF cfg.nil THEN cfg ELSE MakeConfig([k \in Keys(cfg) \ {opt} |-> cfg.kv[k]])

\* The orders in which a range over a map with key set S may visit it.
IterOrders(S) ==
    {o \in [1..Cardinality(S) -> S] : \A i, j \in 1..Cardinality(S) : o[i] = o[j] => i = j}

containedIn(cfg, other) ==
    \A opt \in Keys(cfg) : Has(other, opt) /\ cfg.kv[opt] = other.kv[opt]

Equal(cfg, other) == containedIn(cfg, other) /\ containedIn(other, cfg)

(***************************************************************************)
(* ConfigDiff, DiffConfig.                                                 *)
(***************************************************************************)
ConfigValue(opt, val) == [Opt |-> opt, Val |-> val]
ConfigChange(opt, oldval, newval) == [Opt |-> opt, OldVal |-> oldval, NewVal |-> newval]
ConfigDiff(inold, changes, innew) == [InOld |-> inold, Changes |-> changes, InNew |-> innew]

\* Insert e into the sequence s, sorted by Opt, before the first entry that is not smaller.
RECURSIVE InsertByOpt(_, _)
InsertByOpt(s, e) ==
    IF s = <<>> THEN << e >>
    ELSE IF StrLess(Head(s).Opt, e.Opt) THEN << Head(s) >> \o InsertByOpt(Tail(s), e)
    ELSE << e >> \o s

\* sort.Slice(s, func(i, j) { return s[i].Opt < s[j].Opt })
RECURSIVE SortByOpt(_)
SortByOpt(s) == IF s = <<>> THEN <<>> ELSE InsertByOpt(SortByOpt(Tail(s)), Head(s))

\* ConfigDiff.sort with the sorting left out.
DiffSortOmitted(diff) == diff

\* ConfigDiff.sort
DiffSort(diff) ==
    ConfigDiff(SortByOpt(diff.InOld), SortByOpt(diff.Changes), SortByOpt(diff.InNew))

\* The first loop of DiffConfig, from position i of the iteration order of old.
RECURSIVE DiffOldLoop(_, _, _, _, _)
DiffOldLoop(old, new, order, i, diff) ==
    IF i > Len(order) THEN diff
    ELSE LET opt == order[i]
             oldval == old.kv[opt]
         IN  IF ~Has(new, opt)
             THEN DiffOldLoop(old, new, order, i + 1,
                      [diff EXCEPT !.InOld = Append(@, ConfigValue(opt, oldval))])
             ELSE IF oldval # new.kv[opt]
             THEN DiffOldLoop(old, new, order, i + 1,
                      [diff EXCEPT !.Changes = Append(@, ConfigChange(opt, oldval, new.kv[opt]))])
             ELSE DiffOldLoop(old, new, order, i + 1, diff)

\* The second loop of DiffConfig with presence tested in new instead of old.
RECURSIVE DiffNewLoopTestsNew(_, _, _, _, _)
DiffNewLoopTestsNew(old, new, order, i, diff) ==
    IF i > Len(order) THEN diff
    ELSE LET opt == order[i]
         IN  IF ~Has(new, opt)
             THEN DiffNewLoopTestsNew(old, new, order, i + 1,
                      [diff EXCEPT !.InNew = Append(@, ConfigValue(opt, new.kv[opt]))])
             ELSE DiffNewLoopTestsNew(old, new, order, i + 1, diff)

\* The second loop of DiffConfig, from position i of the iteration order of new.
RECURSIVE DiffNewLoop(_, _, _, _, _)
DiffNewLoop(old, new, order, i, diff) ==
    IF i > Len(order) THEN diff
    ELSE LET opt == order[i]
         IN  IF ~Has(old, opt)
             THEN DiffNewLoop(old, new, order, i + 1,
                      [diff EXCEPT !.InNew = Append(@, ConfigValue(opt, new.kv[opt]))])
             ELSE DiffNewLoop(old, new, order, i + 1, diff)

\* DiffConfig(old, new), the maps being ranged over in the orders orderOld and orderNew.
DiffConfig(old, new, orderOld, orderNew) ==
    DiffSort(DiffNewLoop(old, new, orderNew, 1,
                 DiffOldLoop(old, new, orderOld, 1, ConfigDiff(<<>>, <<>>, <<>>))))

(***************************************************************************)
(* Config.ApplyDiff.                                                       *)
(***************************************************************************)
NoError == [kind |-> "nil"]
invalidOldValueError(cv) == [kind |-> "invalidOldValueError", cv |-> cv]
invalidChangeError(cc) == [kind |-> "invalidChangeError", cc |-> cc]
mismatchedChangeError(cc, oldval) == [kind |-> "mismatchedChangeError", cc |-> cc, oldval |-> oldval]
invalidNewValueError(cv) == [kind |-> "invalidNewValueError", cv |-> cv]

\* What ApplyDiff returns.
ApplyResult(new, err) == [cfg |-> new, err |-> err]

\* The loop over diff.InNew, from entry i, new being the configuration built so far.
RECURSIVE ApplyInNew(_, _, _, _)
ApplyInNew(cfg, diff, new, i) ==
    IF i > Len(diff.InNew) THEN ApplyResult(new, NoError)
    ELSE LET cv == diff.InNew[i]
         IN  IF Has(cfg, cv.Opt)
             THEN ApplyResult(NilConfig, invalidNewValueError(cv))
             ELSE ApplyInNew(cfg, diff, MapSet(new, cv.Opt, cv.Val), i + 1)

\* The loop over diff.Changes storing the old value of the change record.
RECURSIVE ApplyChangesStoresOld(_, _, _, _)
ApplyChangesStoresOld(cfg, diff, new, i) ==
    IF i > Len(diff.Changes) THEN ApplyInNew(cfg, diff, new, 1)
    ELSE LET cc == diff.Changes[i]
         IN  IF ~Has(cfg, cc.Opt)
             THEN ApplyResult(NilConfig, invalidChangeError(cc))
             ELSE IF cfg.kv[cc.Opt] # cc.OldVal
             THEN ApplyResult(NilConfig, mismatchedChangeError(cc, cfg.kv[cc.Opt]))
             ELSE ApplyChangesStoresOld(cfg, diff, MapSet(new, cc.Opt, cc.OldVal), i + 1)

\* The loop over diff.Changes, from entry i.
RECURSIVE ApplyChanges(_, _, _, _)
ApplyChanges(cfg, diff, new, i) ==
    IF i > Len(diff.Changes) THEN ApplyInNew(cfg, diff, new, 1)
    ELSE LET cc == diff.Changes[i]
         IN  IF ~Has(cfg, cc.Opt)
             THEN ApplyResult(NilConfig, invalidChangeError(cc))
             ELSE IF cfg.kv[cc.Opt] # cc.OldVal
             THEN ApplyResult(NilConfig, mismatchedChangeError(cc, cfg.kv[cc.Opt]))
             ELSE ApplyChanges(cfg, diff, MapSet(new, cc.Opt, cc.NewVal), i + 1)

\* The loop over diff.InOld with presence tested in the map being built.
RECURSIVE ApplyInOldTestsNew(_, _, _, _)
ApplyInOldTestsNew(cfg, diff, new, i) ==
    IF i > Len(diff.InOld) THEN ApplyChanges(cfg, diff, new, 1)
    ELSE LET cv == diff.InOld[i]
         IN  IF ~Has(new, cv.Opt)
             THEN ApplyResult(NilConfig, invalidOldValueError(cv))
             ELSE ApplyInOldTestsNew(cfg, diff, MapDelete(new, cv.Opt), i + 1)

\* The loop over diff.InOld, from entry i.
RECURSIVE ApplyInOld(_, _, _, _)
ApplyInOld(cfg, diff, new, i) ==
    IF i > Len(diff.InOld) THEN ApplyChanges(cfg, diff, new, 1)
    ELSE LET cv == diff.InOld[i]
         IN  IF ~Has(cfg, cv.Opt)
             THEN ApplyResult(NilConfig, invalidOldValueError(cv))
             ELSE ApplyInOld(cfg, diff, MapDelete(new, cv.Opt), i + 1)

\* cfg.ApplyDiff(diff): new starts as a copy of cfg (a non-nil map also when cfg is nil).
ApplyDiff(cfg, diff) ==
    ApplyInOld(cfg, diff, MakeConfig([k \in Keys(cfg) |-> cfg.kv[k]]), 1)

(***************************************************************************)
(* ParseConfig.                                                            *)
(***************************************************************************)
\* What parseConfigLine returns; panic is the run-time panic of tokens[1] when
\* strings.Split returned a single token.
LineResult(opt, val) == [opt |-> opt, val |-> val, panic |-> FALSE]
LinePanic == [opt |-> <<>>, val |-> <<>>, panic |-> TRUE]

parseConfigLine(line0) ==
    LET line == TrimSpace(line0)
    IN  IF HasPrefix(line, StrCONFIG)
        THEN LET tokens == Split(TrimPrefix(line, StrCONFIG), "=")
             IN  IF Len(tokens) < 2 THEN LinePanic
                 ELSE LineResult(tokens[1], tokens[2])
        ELSE IF HasSuffix(line, StrIsNotSet)
        THEN LineResult(TrimPrefix(TrimSuffix(line, StrIsNotSet), StrHashCONFIG), StrN)
        ELSE LineResult(<<>>, <<>>)

\* bufio.ScanLines' dropCR
dropCR(s) == IF s # <<>> /\ s[Len(s)] = "\r" THEN SubSeq(s, 1, Len(s) - 1) ELSE s

\* The tokens bufio.Scanner yields for the input data: the lines without their
\* terminators, the last one also when it is not terminated and not empty.
RECURSIVE ScanLines(_)
ScanLines(data) ==
    IF data = <<>> THEN <<>>
    ELSE LET i == IndexFrom(data, "\n", 1)
         IN  IF i = 0 THEN << dropCR(data) >>
             ELSE << dropCR(SubSeq(data, 1, i - 1)) >> \o ScanLines(SubSeq(data, i + 1, Len(data)))

\* What ParseConfig returns (the reader never fails); panic: the call did not return.
ParseResult(cfg, panic) == [cfg |-> cfg, err |-> NoError, panic |-> panic]

\* The loop of ParseConfig, from line i, cfg being the map built so far.
RECURSIVE ParseLoop(_, _, _)
ParseLoop(lines, i, cfg) ==
    IF i > Len(lines) THEN ParseResult(cfg, FALSE)
    ELSE LET r == parseConfigLine(lines[i])
         IN  IF r.panic THEN ParseResult(NilConfig, TRUE)
             ELSE IF r.opt # <<>> THEN ParseLoop(lines, i + 1, MapSet(cfg, r.opt, r.val))
             ELSE ParseLoop(lines, i + 1, cfg)

ParseConfig(data) == ParseLoop(ScanLines(data), 1, MakeConfig(EmptyMap))

(***************************************************************************)
(* Config.WriteTo.                                                         *)
(***************************************************************************)
\* An io.Writer: buf is what it has accepted, calls the number of Write calls made
\* on it.  Its failAt-th Write accepts at most shortN bytes and returns an error;
\* failAt = 0 is a writer that never fails.
Writer(failAt, shortN) == [failAt |-> failAt, shortN |-> shortN, calls |-> 0, buf |-> <<>>]
WriteError == [kind |-> "writeError"]

Min(a, b) == IF a < b THEN a ELSE b

\* fmt.Fprintf(w, ...) with the formatted text p: one Write call; [w, n, err].
Fprintf(w, p) ==
    LET fails == w.calls + 1 = w.failAt
        n == IF fails THEN Min(w.shortN, Len(p)) ELSE Len(p)
    IN  [w |-> [w EXCEPT !.calls = @ + 1, !.buf = @ \o SubSeq(p, 1, n)],
         n |-> n,
         err |-> IF fails THEN WriteError ELSE NoError]

\* configWriter
ConfigWriter(w) == [W |-> w, N |-> 0, Err |-> NoError]

\* configWriter.WriteLine without the test of the sticky error.
WriteLineNotSticky(cfgw, option, value) ==
    LET r == IF value = StrN
             THEN Fprintf(cfgw.W, StrHashCONFIG \o option \o StrIsNotSet \o << "\n" >>)
             ELSE Fprintf(cfgw.W, StrCONFIG \o option \o << "=" >> \o value \o << "\n" >>)
    IN  [W |-> r.w, N |-> cfgw.N + r.n, Err |-> r.err]

\* configWriter.WriteLine
WriteLine(cfgw, option, value) ==
    IF cfgw.Err # NoError THEN cfgw
    ELSE LET r == IF value = StrN
                  THEN Fprintf(cfgw.W, StrHashCONFIG \o option \o StrIsNotSet \o << "\n" >>)
                  ELSE Fprintf(cfgw.W, StrCONFIG \o option \o << "=" >> \o value \o << "\n" >>)
         IN  [W |-> r.w, N |-> cfgw.N + r.n, Err |-> r.err]

\* Insert the string e into the sorted sequence of strings s.
RECURSIVE InsertString(_, _)
InsertString(s, e) ==
    IF s = <<>> THEN << e >>
    ELSE IF StrLess(Head(s), e) THEN << Head(s) >> \o InsertString(Tail(s), e)
    ELSE << e >> \o s

\* sort.Strings left out.
SortStringsOmitted(s) == s

\* sort.Strings
RECURSIVE SortStrings(_)
SortStrings(s) == IF s = <<>> THEN <<>> ELSE InsertString(SortStrings(Tail(s)), Head(s))

\* The loop of WriteTo over the sorted opts, from position i.
RECURSIVE WriteLoop(_, _, _, _)
WriteLoop(cfg, opts, i, cfgw) ==
    IF i > Len(opts) THEN cfgw
    ELSE WriteLoop(cfg, opts, i + 1, WriteLine(cfgw, opts[i], cfg.kv[opts[i]]))

\* cfg.WriteTo(w), the map being ranged over in the given order; the configWriter
\* at return: N and Err are the values returned, W is the writer afterwards.
WriteTo(cfg, order, w) == WriteLoop(cfg, SortStrings(order), 1, ConfigWriter(w))

(***************************************************************************)
(* ConfigDiff.WriteTo.                                                     *)
(***************************************************************************)
\* ConfigValue.String: "%s %s"
ConfigValueString(cv) == cv.Opt \o << " " >> \o cv.Val

\* ConfigChange.String: "%s %s -> %s"
ConfigChangeString(cc) ==
    cc.Opt \o << " " >> \o cc.OldVal \o << " ", "-", ">", " " >> \o cc.NewVal

\* configDiffWriter
ConfigDiffWriter(w) == [W |-> w, N |-> 0, Err |-> NoError]

\* One write of a configDiffWriter: nothing once Err is set, else one Fprintf of text.
DiffWrite(cfgdw, text) ==
    IF cfgdw.Err # NoError THEN cfgdw
    ELSE LET r == Fprintf(cfgdw.W, text)
         IN  [W |-> r.w, N |-> cfgdw.N + r.n, Err |-> r.err]

\* configDiffWriter.WriteOld: "-%s\n"
WriteOld(cfgdw, cv) == DiffWrite(cfgdw, << "-" >> \o ConfigValueString(cv) \o << "\n" >>)

\* configDiffWriter.WriteChange: " %s\n"
WriteChange(cfgdw, cc) == DiffWrite(cfgdw, << " " >> \o ConfigChangeString(cc) \o << "\n" >>)

\* configDiffWriter.WriteNew: "+%s\n"
WriteNew(cfgdw, cv) == DiffWrite(cfgdw, << "+" >> \o ConfigValueString(cv) \o << "\n" >>)

\* The loop of ConfigDiff.WriteTo over diff.InNew, from entry i.
RECURSIVE WriteNewLoop(_, _, _)
WriteNewLoop(diff, i, cfgdw) ==
    IF i > Len(diff.InNew) THEN cfgdw
    ELSE WriteNewLoop(diff, i + 1, WriteNew(cfgdw, diff.InNew[i]))

\* The loop of ConfigDiff.WriteTo over diff.Changes, from entry i.
RECURSIVE WriteChangesLoop(_, _, _)
WriteChangesLoop(diff, i, cfgdw) ==
    IF i > Len(diff.Changes) THEN WriteNewLoop(diff, 1, cfgdw)
    ELSE WriteChangesLoop(diff, i + 1, WriteChange(cfgdw, diff.Changes[i]))

\* The loop of ConfigDiff.WriteTo over diff.InOld, from entry i.
RECURSIVE WriteOldLoop(_, _, _)
WriteOldLoop(diff, i, cfgdw) ==
    IF i > Len(diff.InOld) THEN WriteChangesLoop(diff, 1, cfgdw)
    ELSE WriteOldLoop(diff, i + 1, WriteOld(cfgdw, diff.InOld[i]))

\* diff.WriteTo(w): the configDiffWriter at return; N and Err are the values returned.
DiffWriteTo(diff, w) == WriteOldLoop(diff, 1, ConfigDiffWriter(w))

(***************************************************************************)
(* The inputs of the diff operations.                                      *)
(***************************************************************************)
\* Option names: one is a proper prefix of another, as FOO and FOO2 in the tests.
Opts == { << "A" >>, << "A", "B" >>, << "B" >> }
Vals == { << "n" >>, << "y" >> }

Configs == { MakeConfig(f) : f \in UNION { [S -> Vals] : S \in SUBSET Opts } } \cup { NilConfig }
ConfigValues == { ConfigValue(o, v) : o \in Opts, v \in Vals }
ConfigChanges == { ConfigChange(o, v, w) : o \in Opts, v \in Vals, w \in Vals }

EmptyDiff == ConfigDiff(<<>>, <<>>, <<>>)

(***************************************************************************)
(* State.                                                                  *)
(***************************************************************************)
VARIABLES
    pc,        \* the last operation performed
    x,         \* the receiver of ApplyDiff, the old argument of DiffConfig
    y,         \* the new argument of DiffConfig
    d,         \* the diff handed to ApplyDiff
    applied,   \* what ApplyDiff returned
    dxy,       \* what DiffConfig(x, y) returned
    dyx,       \* what DiffConfig(y, x) returned
    ordOld,    \* the order in which the last DiffConfig ranged over its old argument
    ordNew,    \* the order in which the last DiffConfig ranged over its new argument
    line,      \* the line handed to parseConfigLine
    lineRes,   \* what parseConfigLine returned
    input,     \* the text handed to ParseConfig
    parsed,    \* what ParseConfig(input) returned
    wcfg,      \* the receiver of WriteTo
    ordW,      \* the order in which WriteTo ranged over its receiver
    writer,    \* the writer handed to WriteTo, before the call
    written,   \* the configWriter of WriteTo at its return
    parsed2,   \* what ParseConfig returned for the text WriteTo produced
    wdiff,     \* the receiver of ConfigDiff.WriteTo
    dwritten   \* the configDiffWriter of ConfigDiff.WriteTo at its return

dvars == << x, y, d, applied, dxy, dyx, ordOld, ordNew >>
tvars == << line, lineRes, input, parsed, wcfg, ordW, writer, written, parsed2, wdiff, dwritten >>
vars == << pc, dvars, tvars >>

Init ==
    /\ pc = "start"
    /\ x = NilConfig
    /\ y = NilConfig
    /\ d = EmptyDiff
    /\ applied = ApplyResult(NilConfig, NoError)
    /\ dxy = EmptyDiff
    /\ dyx = EmptyDiff
    /\ ordOld = <<>>
    /\ ordNew = <<>>
    /\ line = <<>>
    /\ lineRes = LineResult(<<>>, <<>>)
    /\ input = <<>>
    /\ parsed = ParseResult(NilConfig, FALSE)
    /\ wcfg = NilConfig
    /\ ordW = <<>>
    /\ writer = Writer(0, 0)
    /\ written = ConfigWriter(Writer(0, 0))
    /\ parsed2 = ParseResult(NilConfig, FALSE)
    /\ wdiff = EmptyDiff
    /\ dwritten = ConfigDiffWriter(Writer(0, 0))

\* got, err := cfg.ApplyDiff(diff), for every diff of at most MaxDiffEntries entries:
\* unsorted, redundant and overlapping ones too
ApplyDiffCall ==
    /\ pc = "start"
    /\ \E cfg \in Configs, i \in 0..MaxDiffEntries :
          \E j \in 0..(MaxDiffEntries - i) :
             \E k \in 0..(MaxDiffEntries - i - j) :
                \E inold \in [1..i -> ConfigValues],
                   changes \in [1..j -> ConfigChanges],
                   innew \in [1..k -> ConfigValues] :
                   /\ x' = cfg
                   /\ d' = ConfigDiff(inold, changes, innew)
                   /\ applied' = ApplyDiff(cfg, d')
    /\ pc' = "applied"
    /\ UNCHANGED << y, dxy, dyx, ordOld, ordNew, tvars >>

\* newdiff := DiffConfig(cfg, got), after a successful ApplyDiff
DiffAfterApply ==
    /\ pc = "applied"
    /\ applied.err = NoError
    /\ \E oo \in IterOrders(Keys(x)), on \in IterOrders(Keys(applied.cfg)) :
          /\ ordOld' = oo
          /\ ordNew' = on
          /\ dxy' = DiffConfig(x, applied.cfg, oo, on)
    /\ y' = applied.cfg
    /\ pc' = "rediffed"
    /\ UNCHANGED << x, d, applied, dyx, tvars >>

\* DiffConfig(old, new)
DiffConfigCall ==
    /\ pc = "start"
    /\ \E old \in Configs, new \in Configs :
          \E oo \in IterOrders(Keys(old)), on \in IterOrders(Keys(new)) :
             /\ x' = old
             /\ y' = new
             /\ ordOld' = oo
             /\ ordNew' = on
             /\ dxy' = DiffConfig(old, new, oo, on)
    /\ pc' = "diffed"
    /\ UNCHANGED << d, applied, dyx, tvars >>

\* DiffConfig(new, old), after DiffConfig(old, new)
DiffReverse ==
    /\ pc = "diffed"
    /\ \E oo \in IterOrders(Keys(y)), on \in IterOrders(Keys(x)) :
          /\ ordOld' = oo
          /\ ordNew' = on
          /\ dyx' = DiffConfig(y, x, oo, on)
    /\ pc' = "reversed"
    /\ UNCHANGED << x, y, d, applied, dxy, tvars >>

\* old.ApplyDiff(DiffConfig(old, new))
ApplyAfterDiff ==
    /\ pc = "diffed"
    /\ d' = dxy
    /\ applied' = ApplyDiff(x, dxy)
    /\ pc' = "reapplied"
    /\ UNCHANGED << x, y, dxy, dyx, ordOld, ordNew, tvars >>

NextDiff ==
    \/ ApplyDiffCall
    \/ DiffAfterApply
    \/ DiffConfigCall
    \/ DiffReverse
    \/ ApplyAfterDiff

SpecDiff == Init /\ [][NextDiff]_vars

(***************************************************************************)
(* The inputs of the text operations.                                      *)
(***************************************************************************)
\* The pieces the input texts are built from.
Fragments ==
    { StrCONFIG, StrHashCONFIG, StrIsNotSet, << "=" >>, << "X" >>, << "n" >>, << " " >>, << "\n" >> }

\* A line of the scanner holds no line terminator.
LineFragments == Fragments \ { << "\n" >> }

\* The concatenation of the sequence of fragments fs.
RECURSIVE Concat(_)
Concat(fs) == IF fs = <<>> THEN <<>> ELSE Head(fs) \o Concat(Tail(fs))

Writers == { Writer(0, 0) } \cup { Writer(k, n) : k \in 1..MaxFailAt, n \in 0..MaxShort }

\* parseConfigLine(line), for every line of at most MaxFrags fragments
ParseLineCall ==
    /\ pc = "start"
    /\ \E n \in 0..MaxFrags :
          \E fs \in [1..n -> LineFragments] :
             /\ line' = Concat(fs)
             /\ lineRes' = parseConfigLine(line')
    /\ pc' = "lineparsed"
    /\ UNCHANGED << input, parsed, wcfg, ordW, writer, written, parsed2, wdiff, dwritten, dvars >>

\* ParseConfig(strings.NewReader(input)), for every text of at most MaxFrags fragments
ParseConfigCall ==
    /\ pc = "start"
    /\ \E n \in 0..MaxFrags :
          \E fs \in [1..n -> Fragments] :
             /\ input' = Concat(fs)
             /\ parsed' = ParseConfig(input')
    /\ pc' = "parsed"
    /\ UNCHANGED << line, lineRes, wcfg, ordW, writer, written, parsed2, wdiff, dwritten, dvars >>

\* cfg.WriteTo(buf) on the configuration ParseConfig returned, buf a bytes.Buffer
WriteParsed ==
    /\ pc = "parsed"
    /\ ~parsed.panic
    /\ \E order \in IterOrders(Keys(parsed.cfg)) :
          /\ ordW' = order
          /\ written' = WriteTo(parsed.cfg, order, Writer(0, 0))
    /\ wcfg' = parsed.cfg
    /\ writer' = Writer(0, 0)
    /\ pc' = "written"
    /\ UNCHANGED << line, lineRes, input, parsed, parsed2, wdiff, dwritten, dvars >>

\* ParseConfig on the bytes WriteTo produced
Reparse ==
    /\ pc = "written"
    /\ parsed2' = ParseConfig(written.W.buf)
    /\ pc' = "reparsed"
    /\ UNCHANGED << line, lineRes, input, parsed, wcfg, ordW, writer, written, wdiff, dwritten, dvars >>

\* cfg.WriteTo(w)
WriteToCall ==
    /\ pc = "start"
    /\ \E cfg \in Configs, w \in Writers :
          \E order \in IterOrders(Keys(cfg)) :
             /\ wcfg' = cfg
             /\ writer' = w
             /\ ordW' = order
             /\ written' = WriteTo(cfg, order, w)
    /\ pc' = "wrote"
    /\ UNCHANGED << line, lineRes, input, parsed, parsed2, wdiff, dwritten, dvars >>

\* diff.WriteTo(w), for every diff of at most MaxDiffEntries entries
DiffWriteToCall ==
    /\ pc = "start"
    /\ \E w \in Writers, i \in 0..MaxDiffEntries :
          \E j \in 0..(MaxDiffEntries - i) :
             \E k \in 0..(MaxDiffEntries - i - j) :
                \E inold \in [1..i -> ConfigValues],
                   changes \in [1..j -> ConfigChanges],
                   innew \in [1..k -> ConfigValues] :
                   /\ wdiff' = ConfigDiff(inold, changes, innew)
                   /\ writer' = w
                   /\ dwritten' = DiffWriteTo(wdiff', w)
    /\ pc' = "diffwrote"
    /\ UNCHANGED << line, lineRes, input, parsed, wcfg, ordW, written, parsed2, dvars >>

NextText ==
    \/ ParseLineCall
    \/ ParseConfigCall
    \/ WriteParsed
    \/ Reparse
    \/ WriteToCall
    \/ DiffWriteToCall

SpecText == Init /\ [][NextText]_vars

(***************************************************************************)
(* Properties of ApplyDiff and DiffConfig, checked under SpecDiff.         *)
(***************************************************************************)
\* s is strictly ascending by option name.
Ascending(s) == \A i \in 1..(Len(s) - 1) : StrLess(s[i].Opt, s[i + 1].Opt)

Range(s) == { s[i] : i \in 1..Len(s) }

OptsOf(s) == { s[i].Opt : i \in 1..Len(s) }

\* diff follows the sorting and non-redundancy rules of the diff engine.
FollowsDiffRules(diff) ==
    /\ Ascending(diff.InOld)
    /\ Ascending(diff.Changes)
    /\ Ascending(diff.InNew)
    /\ OptsOf(diff.InOld) \cap OptsOf(diff.Changes) = {}
    /\ OptsOf(diff.InOld) \cap OptsOf(diff.InNew) = {}
    /\ OptsOf(diff.Changes) \cap OptsOf(diff.InNew) = {}
    /\ \A i \in 1..Len(diff.Changes) : diff.Changes[i].OldVal # diff.Changes[i].NewVal

\* C1: whenever cfg.ApplyDiff(d) succeeds with result y, DiffConfig(cfg, y) equals d.
C1_RoundTripEveryDiff ==
    pc = "rediffed" => dxy = d

\* C2: A.ApplyDiff(DiffConfig(A, B)) returns no error and a configuration with
\* exactly the keys and values of B.
C2_ApplyOfDiffIsNew ==
    pc = "reapplied" =>
        /\ applied.err = NoError
        /\ ~applied.cfg.nil
        /\ Keys(applied.cfg) = Keys(y)
        /\ \A opt \in Keys(y) : applied.cfg.kv[opt] = y.kv[opt]

\* C2's case: a diff with a removal, a change and an addition has been applied.
C2_Witness ==
    /\ pc = "reapplied"
    /\ d.InOld # <<>>
    /\ d.Changes # <<>>
    /\ d.InNew # <<>>
    /\ applied.err = NoError

\* C3: if d follows the sorting and non-redundancy rules and cfg.ApplyDiff(d)
\* succeeds with result y, then DiffConfig(cfg, y) equals d.
C3_RoundTripRuleFollowingDiff ==
    (pc = "rediffed" /\ FollowsDiffRules(d)) => dxy = d

\* diff is the difference of old and new the diff engine is to report: each
\* sequence strictly ascending and holding exactly the entries of its class.
IsDiffOf(diff, old, new) ==
    /\ Ascending(diff.InOld)
    /\ Range(diff.InOld) = { ConfigValue(o, old.kv[o]) : o \in Keys(old) \ Keys(new) }
    /\ Ascending(diff.Changes)
    /\ Range(diff.Changes) =
          { ConfigChange(o, old.kv[o], new.kv[o]) :
                o \in { k \in Keys(old) \cap Keys(new) : old.kv[k] # new.kv[k] } }
    /\ Ascending(diff.InNew)
    /\ Range(diff.InNew) = { ConfigValue(o, new.kv[o]) : o \in Keys(new) \ Keys(old) }

\* C4: whatever the orders in which the two maps are ranged over, DiffConfig(old, new)
\* is the three strictly ascending lists of the options only in old, of the options
\* in both with different values, and of the options only in new; no change record
\* has equal values and DiffConfig(A, A) is empty.
C4_DiffConfigResult ==
    /\ pc = "diffed" =>
          /\ IsDiffOf(dxy, x, y)
          /\ \A i \in 1..Len(dxy.Changes) : dxy.Changes[i].OldVal # dxy.Changes[i].NewVal
          /\ Equal(x, y) => dxy = EmptyDiff
    /\ pc = "reversed" => IsDiffOf(dyx, y, x)

\* C4's case: the maps were ranged over out of order and every sequence is filled,
\* one with two entries.
C4_Witness ==
    /\ pc = "diffed"
    /\ Len(ordOld) >= 2
    /\ StrLess(ordOld[2], ordOld[1])
    /\ Len(ordNew) >= 2
    /\ StrLess(ordNew[2], ordNew[1])
    /\ Len(dxy.InOld) + Len(dxy.Changes) + Len(dxy.InNew) >= 3
    /\ Len(dxy.InOld) >= 1
    /\ Len(dxy.InNew) >= 1

\* C5: DiffConfig(A, B).InOld = DiffConfig(B, A).InNew, DiffConfig(A, B).InNew =
\* DiffConfig(B, A).InOld, and the two Changes sequences have the same length and
\* hold at each index the same option with OldVal and NewVal swapped.
C5_Symmetry ==
    pc = "reversed" =>
        /\ dxy.InOld = dyx.InNew
        /\ dxy.InNew = dyx.InOld
        /\ Len(dxy.Changes) = Len(dyx.Changes)
        /\ \A i \in 1..Len(dxy.Changes) :
              /\ dyx.Changes[i].Opt = dxy.Changes[i].Opt
              /\ dyx.Changes[i].OldVal = dxy.Changes[i].NewVal
              /\ dyx.Changes[i].NewVal = dxy.Changes[i].OldVal

\* C5's case: both directions were computed and two options changed.
C5_Witness ==
    /\ pc = "reversed"
    /\ Len(dxy.Changes) >= 2
    /\ dxy.InOld # <<>>

\* The entries of d that are inconsistent with x.
BadOld(i) == ~Has(x, d.InOld[i].Opt)
BadChange(i) == ~Has(x, d.Changes[i].Opt) \/ x.kv[d.Changes[i].Opt] # d.Changes[i].OldVal
BadNew(i) == Has(x, d.InNew[i].Opt)

\* The least index in 1..n that satisfies P.
First(P(_), n) == CHOOSE i \in 1..n : P(i) /\ \A j \in 1..(i - 1) : ~P(j)

\* The error for the first inconsistent entry of d, scanning InOld, Changes, InNew.
ExpectedError ==
    IF \E i \in 1..Len(d.InOld) : BadOld(i)
    THEN invalidOldValueError(d.InOld[First(BadOld, Len(d.InOld))])
    ELSE IF \E i \in 1..Len(d.Changes) : BadChange(i)
    THEN LET cc == d.Changes[First(BadChange, Len(d.Changes))]
         IN  IF ~Has(x, cc.Opt) THEN invalidChangeError(cc)
             ELSE mismatchedChangeError(cc, x.kv[cc.Opt])
    ELSE IF \E i \in 1..Len(d.InNew) : BadNew(i)
    THEN invalidNewValueError(d.InNew[First(BadNew, Len(d.InNew))])
    ELSE NoError

\* C8: cfg.ApplyDiff(d) fails exactly when some entry of d is inconsistent with cfg
\* as passed in; it then returns a nil configuration and the error of the first
\* inconsistent entry met scanning InOld, then Changes, then InNew.
C8_ApplyDiffErrors ==
    pc = "applied" =>
        /\ applied.err = ExpectedError
        /\ applied.err # NoError => applied.cfg.nil
        /\ applied.err = NoError => ~applied.cfg.nil

\* C8's case: an entry is consistent with cfg but not with the configuration built
\* so far (an option removed twice), and a later entry is the first inconsistent one.
C8_Witness ==
    /\ pc = "applied"
    /\ Len(d.InOld) = 2
    /\ d.InOld[1].Opt = d.InOld[2].Opt
    /\ Len(d.Changes) = 1
    /\ applied.err.kind = "mismatchedChangeError"

(***************************************************************************)
(* Properties of parseConfigLine, ParseConfig and WriteTo, checked under   *)
(* SpecText.                                                               *)
(***************************************************************************)
\* C6: a line CONFIG_<name>=<value>, <name> not empty, is split at its first '='
\* only: the option is <name> and the value is all of the trimmed line after that
\* '=', further '=' characters included.
C6_SplitsAtFirstEqualsOnly ==
    LET rest == TrimPrefix(TrimSpace(line), StrCONFIG)
        i == IndexFrom(rest, "=", 1)
    IN  (pc = "lineparsed" /\ HasPrefix(TrimSpace(line), StrCONFIG) /\ i > 1) =>
            /\ ~lineRes.panic
            /\ lineRes.opt = SubSeq(rest, 1, i - 1)
            /\ lineRes.val = SubSeq(rest, i + 1, Len(rest))

\* t is # CONFIG_<name> is not set.
IsNotSetForm(t) ==
    /\ HasPrefix(t, StrHashCONFIG)
    /\ HasSuffix(t, StrIsNotSet)
    /\ Len(t) >= Len(StrHashCONFIG) + Len(StrIsNotSet)

\* C7: a line that, trimmed, neither begins with CONFIG_ nor is of the form
\* # CONFIG_<name> is not set produces no entry.
C7_OtherLinesAddNothing ==
    (/\ pc = "lineparsed"
     /\ ~HasPrefix(TrimSpace(line), StrCONFIG)
     /\ ~IsNotSetForm(TrimSpace(line))) =>
        /\ ~lineRes.panic
        /\ lineRes.opt = <<>>

\* Every line of the text that starts with CONFIG_ holds an '='.
WellFormed(text) ==
    \A i \in 1..Len(ScanLines(text)) :
        LET t == TrimSpace(ScanLines(text)[i])
        IN  HasPrefix(t, StrCONFIG) => IndexFrom(t, "=", 1) # 0

\* C9: for a well-formed text, parsing, writing and parsing again yields the keys
\* and values of the first parse.
C9_ParseWriteParse ==
    (pc = "reparsed" /\ WellFormed(input)) =>
        /\ ~parsed2.panic
        /\ Keys(parsed2.cfg) = Keys(parsed.cfg)
        /\ \A opt \in Keys(parsed.cfg) : parsed2.cfg.kv[opt] = parsed.cfg.kv[opt]

\* The line of an option in the canonical text.
CanonicalLine(opt, val) ==
    IF val = StrN THEN StrHashCONFIG \o opt \o StrIsNotSet \o << "\n" >>
    ELSE StrCONFIG \o opt \o << "=" >> \o val \o << "\n" >>

\* The lines of the options S of cfg, the smallest option name first.
RECURSIVE CanonicalText(_, _)
CanonicalText(cfg, S) ==
    IF S = {} THEN <<>>
    ELSE LET m == CHOOSE k \in S : \A o \in S \ {k} : StrLess(k, o)
         IN  CanonicalLine(m, cfg.kv[m]) \o CanonicalText(cfg, S \ {m})

\* C10: with a writer that never fails, WriteTo emits one line per option in
\* strictly ascending option order, whatever the iteration order, in the not-set
\* form for the value n and the assignment form otherwise; nothing for a nil or
\* empty configuration; it returns no error and the number of bytes emitted.
C10_WriteToOutput ==
    (pc \in {"wrote", "written"} /\ writer.failAt = 0) =>
        /\ written.W.buf = CanonicalText(wcfg, Keys(wcfg))
        /\ written.W.calls = Cardinality(Keys(wcfg))
        /\ Keys(wcfg) = {} => written.W.buf = <<>>
        /\ written.N = Len(written.W.buf)
        /\ written.Err = NoError

\* C10's case: three options ranged over out of order, one of them not set.
C10_Witness ==
    /\ pc = "wrote"
    /\ writer.failAt = 0
    /\ Len(ordW) = 3
    /\ StrLess(ordW[2], ordW[1])
    /\ StrLess(ordW[3], ordW[2])
    /\ \E o \in Keys(wcfg) : wcfg.kv[o] = StrN
    /\ \E o \in Keys(wcfg) : wcfg.kv[o] # StrN
    /\ written.Err = NoError

(***************************************************************************)
(* Properties of the sticky write error, checked under SpecText.           *)
(***************************************************************************)
\* The lines of the options S of cfg, the smallest option name first.
RECURSIVE CanonicalLines(_, _)
CanonicalLines(cfg, S) ==
    IF S = {} THEN <<>>
    ELSE LET m == CHOOSE k \in S : \A o \in S \ {k} : StrLess(k, o)
         IN  << CanonicalLine(m, cfg.kv[m]) >> \o CanonicalLines(cfg, S \ {m})

\* The lines of a diff: InOld, then Changes, then InNew.
DiffLines(diff) ==
    [i \in 1..Len(diff.InOld) |->
        << "-" >> \o diff.InOld[i].Opt \o << " " >> \o diff.InOld[i].Val \o << "\n" >>]
    \o [i \in 1..Len(diff.Changes) |->
        << " " >> \o diff.Changes[i].Opt \o << " " >> \o diff.Changes[i].OldVal
            \o << " ", "-", ">", " " >> \o diff.Changes[i].NewVal \o << "\n" >>]
    \o [i \in 1..Len(diff.InNew) |->
        << "+" >> \o diff.InNew[i].Opt \o << " " >> \o diff.InNew[i].Val \o << "\n" >>]

\* The sum of the lengths of the first n of the lines.
RECURSIVE SumLen(_, _)
SumLen(lines, n) == IF n = 0 THEN 0 ELSE SumLen(lines, n - 1) + Len(lines[n])

\* cw is what a WriteTo over the lines leaves when the write of line number
\* w.failAt failed: that write was the last one made, its error is the one
\* returned, and the count is the sum of what the writes made reported.
StoppedAtFirstError(cw, lines, w) ==
    /\ cw.W.calls = w.failAt
    /\ cw.Err = WriteError
    /\ cw.N = SumLen(lines, w.failAt - 1) + Min(w.shortN, Len(lines[w.failAt]))

\* C11: when a write to the underlying writer returns an error, Config.WriteTo and
\* ConfigDiff.WriteTo issue no further write, return that first error, and return
\* the sum of the byte counts the writes made reported.
C11_StickyWriteError ==
    /\ (pc = "wrote" /\ writer.failAt \in 1..Cardinality(Keys(wcfg))) =>
          StoppedAtFirstError(written, CanonicalLines(wcfg, Keys(wcfg)), writer)
    /\ (pc = "diffwrote" /\ writer.failAt \in 1..Len(DiffLines(wdiff))) =>
          StoppedAtFirstError(dwritten, DiffLines(wdiff), writer)

\* C11's case: the second of three writes of a diff failed after one more byte.
C11_Witness ==
    /\ pc = "diffwrote"
    /\ Len(wdiff.InOld) = 1
    /\ Len(wdiff.Changes) = 1
    /\ Len(wdiff.InNew) = 1
    /\ writer.failAt = 2
    /\ writer.shortN = 1
    /\ dwritten.Err = WriteError
    /\ dwritten.N > 1

(***************************************************************************)
(* Malformed input of ParseConfig, checked under SpecText.                 *)
(***************************************************************************)
\* Some line of the text starts with CONFIG_ and holds no '='.
HasMalformedLine(text) == ~WellFormed(text)

\* C12: when the input holds a line that begins with CONFIG_ and has no '=',
\* ParseConfig still returns normally, with an error or with a configuration; it
\* never aborts.
C12_MalformedLineReturns ==
    (pc = "parsed" /\ HasMalformedLine(input)) =>
        /\ ~parsed.panic
        /\ (parsed.err # NoError \/ ~parsed.cfg.nil)

(***************************************************************************)
(* Removed options of ApplyDiff, checked under SpecDiff.                   *)
(***************************************************************************)
\* C13: whenever cfg.ApplyDiff(d) succeeds, no option named by an entry of d.InOld
\* is a key of the returned configuration, also when d names the option in InOld
\* and in Changes.
C13_RemovedOptionsAbsent ==
    (pc = "applied" /\ applied.err = NoError) =>
        \A i \in 1..Len(d.InOld) : ~Has(applied.cfg, d.InOld[i].Opt)

====
